---- MODULE Spec2Model ----
(***************************************************************************)
(* The load-test service of stress-test/stress_test_service.py: the Flask  *)
(* control plane (POST /start-test, POST /run-test, GET/POST /config,      *)
(* GET /status), the single-flight guard is_test_running under test_lock,  *)
(* the background run thread of execute_test_in_thread and, inside it, the *)
(* asyncio engine of run_load_test (producer, queue, workers, counters).   *)
(*                                                                         *)
(* Granularity.  Flask serves each request on its own thread, so the       *)
(* handlers and the run thread interleave at every statement.  Each        *)
(* `with test_lock:` whose body only reads, or only writes, is one step     *)
(* that needs the lock free.  A block that tests is_test_running and then  *)
(* writes is two steps, the lock held in between, so that it is the lock   *)
(* and not the step that keeps other threads out.  Inside the run thread   *)
(* the engine is cooperative (asyncio): a coroutine is only left at an     *)
(* await that suspends, so the statements between two such awaits are one  *)
(* step.                                                                   *)
(*                                                                         *)
(* Time.  time.time() is not modelled as a number: the producer's window   *)
(* test `time.time() - start_time < test_duration` is false when the       *)
(* duration is not positive, true on the first test of a positive (whole   *)
(* second) duration, which directly follows the reading of start_time, and *)
(* after that true or false as the clock decides.                          *)
(*                                                                         *)
(* Not modelled: logging, and the float metrics total_time,                *)
(* requests_per_second and success_rate that run_load_test adds to the     *)
(* result after the workers have joined.                                   *)
(***************************************************************************)
EXTENDS Integers, Sequences, FiniteSets, Bags, TLC

VARIABLES
    current_config,     \* module global, line 33
    last_test_results,  \* module global, line 34
    is_test_running,    \* module global, line 35
    test_lock,          \* module global, line 36: its holder, or Free
    handlers,           \* the Flask request threads: [pc, route, changed]
    threads,            \* the run threads started by execute_test_in_thread
    response,           \* the HTTP response sent by the last step, if any
    env                 \* the environment: the clients, the target, the request bodies

vars == <<current_config, last_test_results, is_test_running, test_lock,
          handlers, threads, response, env>>

----------------------------------------------------------------------------
(* Bounds of the model *)

\* run threads started in one behaviour
MaxRuns == 2
\* work items the producer enqueues in one run before its window closes
MaxItems == 2
\* concurrent_requests of DEFAULT_CONFIG and of run_test's default (50 in the
\* source), scaled down to a pool the model can enumerate
DefaultWorkers == 2
\* random.uniform draws are modelled as the multiples of 1/RScale in [0, total_weight]
RScale == 2

Handlers == {1, 2}

\* the largest weight of an endpoint in the configurations the selector is
\* checked on
MaxWeight == 2

----------------------------------------------------------------------------
(* Data *)

\* Python's None as a status code, a queue item, a result
NoStatus == -1
Sentinel == 0
None == [none |-> TRUE]

DefaultDuration == 30
DefaultTimeout == 5
DefaultApiUrl == "http://target-api:5000"

EP_ROOT   == [path |-> "/",       method |-> "GET",  weight |-> 10]
EP_STATUS == [path |-> "/status", method |-> "GET",  weight |-> 5]
EP_SUBMIT == [path |-> "/submit", method |-> "POST", weight |-> 8]
\* endpoints a client can send that the defaults do not contain
EP_PUT    == [path |-> "/item",   method |-> "PUT",  weight |-> 1]
EP_NOWEIGHT == [path |-> "/",     method |-> "GET"]
EP_NOMETHOD == [path |-> "/"]

DEFAULT_CONFIG ==
    [api_url             |-> DefaultApiUrl,
     endpoints           |-> <<EP_ROOT, EP_STATUS, EP_SUBMIT>>,
     concurrent_requests |-> DefaultWorkers,
     test_duration       |-> DefaultDuration,
     request_timeout     |-> DefaultTimeout,
     use_weights         |-> TRUE]

\* dict.get(key, default)
Get(d, key, default) == IF key \in DOMAIN d THEN d[key] ELSE default

\* what the target does with a request: "ok" always answers 200, "down" is
\* unreachable, "any" answers anything or not at all
Replies(target) ==
    CASE target = "ok"   -> {200}
      [] target = "down" -> {NoStatus}
      [] OTHER           -> {200, 201, 500, NoStatus}

\* One environment per behaviour: how many clients send requests concurrently,
\* which routes they use, how many runs they start at most, how the target
\* answers, the body they POST to /config and the body they POST to /run-test.
Scenarios ==
    { \* two clients racing on the control plane
      [clients |-> 2, routes |-> {"start-test", "run-test", "config"}, starts |-> 2,
       target |-> "ok",
       new_config |-> [concurrent_requests |-> 1, verbose |-> TRUE],
       data |-> [requests |-> 1, seconds |-> 1, timeout |-> 1, endpoints |-> <<EP_ROOT>>]],
      \* the default configuration against a target that answers anything
      [clients |-> 1, routes |-> {"start-test", "status"}, starts |-> 1,
       target |-> "any",
       new_config |-> <<>>,
       data |-> <<>>],
      \* an unsupported method and an endpoint without weight, chosen uniformly
      [clients |-> 1, routes |-> {"start-test", "config"}, starts |-> MaxRuns,
       target |-> "ok",
       new_config |-> [endpoints |-> <<EP_PUT, EP_NOWEIGHT>>, use_weights |-> FALSE],
       data |-> <<>>],
      \* an unreachable target, then a window of no length; a POST /config without body
      [clients |-> 1, routes |-> {"start-test", "run-test", "config", "status"},
       starts |-> MaxRuns, target |-> "down",
       new_config |-> <<>>,
       data |-> [api_url |-> "http://other:80", seconds |-> 0, use_weights |-> FALSE,
                 reset_endpoints |-> TRUE]],
      \* no endpoint at all, no worker at all; a timeout set by POST /config that
      \* the body of POST /run-test does not name
      [clients |-> 1, routes |-> {"start-test", "run-test", "config"}, starts |-> MaxRuns,
       target |-> "ok",
       new_config |-> [endpoints |-> <<>>, request_timeout |-> 1],
       data |-> [requests |-> 0]],
      \* an endpoint without a method
      [clients |-> 1, routes |-> {"start-test", "config", "status"}, starts |-> MaxRuns,
       target |-> "down",
       new_config |-> [endpoints |-> <<EP_NOMETHOD>>],
       data |-> <<>>] }

Free == <<>>
H(h) == <<"handler", h>>

NoResponse == [route |-> "none"]

\* `flipped` remembers, for the properties, the stored configuration at the
\* moment the handler set is_test_running
IdleHandler == [pc |-> "idle", route |-> "none", changed |-> FALSE, flipped |-> <<>>]

----------------------------------------------------------------------------
(* The engine's pure parts *)

Weight(endpoint) == Get(endpoint, "weight", 1)

RECURSIVE SumWeights(_, _)
SumWeights(endpoints, n) ==
    IF n = 0 THEN 0 ELSE SumWeights(endpoints, n - 1) + Weight(endpoints[n])

\* lines 132-134
TotalWeight(config) == SumWeights(config.endpoints, Len(config.endpoints))

\* the walk comparing the draw with each weight instead of the cumulative weight
RECURSIVE WeightedWalk_no_sum(_, _, _, _)
WeightedWalk_no_sum(endpoints, rnum, i, cumulative_weight) ==
    IF i > Len(endpoints) THEN 1
    ELSE IF rnum <= Weight(endpoints[i]) * RScale THEN i
         ELSE WeightedWalk_no_sum(endpoints, rnum, i + 1, cumulative_weight)

\* lines 157-164: the index of the endpoint the weighted walk selects for the
\* draw r = rnum / RScale
RECURSIVE WeightedWalk(_, _, _, _)
WeightedWalk(endpoints, rnum, i, cumulative_weight) ==
    IF i > Len(endpoints) THEN 1
    ELSE LET c == cumulative_weight + Weight(endpoints[i])
         IN  IF rnum <= c * RScale THEN i
             ELSE WeightedWalk(endpoints, rnum, i + 1, c)

WeightedSelect(config, rnum) == WeightedWalk(config.endpoints, rnum, 1, 0)

\* the selection entering the weighted branch whatever total_weight is, so that
\* a total of 0 yields the initial selected_endpoint of line 158
Selections_first_on_zero(config) ==
    IF config.use_weights
    THEN { WeightedSelect(config, rnum) : rnum \in 0..(TotalWeight(config) * RScale) }
    ELSE 1..Len(config.endpoints)

\* the selection taking the weighted branch whatever use_weights is
Selections_always_weighted(config) ==
    IF TotalWeight(config) > 0
    THEN { WeightedSelect(config, rnum) : rnum \in 0..(TotalWeight(config) * RScale) }
    ELSE 1..Len(config.endpoints)

\* lines 154-167: the indices of config.endpoints one selection can return
Selections(config) ==
    IF config.use_weights /\ TotalWeight(config) > 0
    THEN { WeightedSelect(config, rnum) : rnum \in 0..(TotalWeight(config) * RScale) }
    ELSE 1..Len(config.endpoints)

\* lines 39-73: the status make_request returns when the target's reply to a
\* request actually sent would be `reply`
make_request(endpoint_config, reply) ==
    IF endpoint_config.method \in {"GET", "POST"} THEN reply ELSE NoStatus

\* line 96: the f-string "{method}:{path}"
EndpointKey(endpoint_config) == endpoint_config.method \o ":" \o endpoint_config.path

NewStats == [total |-> 0, success |-> 0, failed |-> 0]

\* lines 89-93 and 103-107 on one counter triple
Count(stats, status) ==
    [stats EXCEPT !.total   = @ + 1,
                  !.success = IF status = 200 THEN @ + 1 ELSE @,
                  !.failed  = IF status = 200 THEN @ ELSE @ + 1]

\* Record with every 2xx status counted as a success
Record_any_2xx(results, endpoint_config, status) ==
    LET key   == EndpointKey(endpoint_config)
        ok    == status >= 200 /\ status < 300
        old   == Get(results, "endpoint_stats", <<>>)
        was   == Get(old, key, NewStats)
        stats == [k \in DOMAIN old \cup {key} |->
                    IF k = key
                    THEN [total   |-> was.total + 1,
                          success |-> IF ok THEN was.success + 1 ELSE was.success,
                          failed  |-> IF ok THEN was.failed ELSE was.failed + 1]
                    ELSE old[k]]
    IN  [total          |-> results.total + 1,
         success        |-> IF ok THEN results.success + 1 ELSE results.success,
         failed         |-> IF ok THEN results.failed ELSE results.failed + 1,
         endpoint_stats |-> stats]

\* Record with the per-endpoint counters updated only for a request that got a status
Record_skip_stats(results, endpoint_config, status) ==
    LET key   == EndpointKey(endpoint_config)
        old   == Get(results, "endpoint_stats", <<>>)
        stats == IF status = NoStatus THEN old
                 ELSE [k \in DOMAIN old \cup {key} |->
                         IF k = key THEN Count(Get(old, key, NewStats), status)
                         ELSE old[k]]
    IN  [total          |-> results.total + 1,
         success        |-> IF status = 200 THEN results.success + 1 ELSE results.success,
         failed         |-> IF status = 200 THEN results.failed ELSE results.failed + 1,
         endpoint_stats |-> stats]

\* Record with `elif status is not None` guarding the failed counters
Record_none_uncounted(results, endpoint_config, status) ==
    LET key   == EndpointKey(endpoint_config)
        bad   == status # 200 /\ status # NoStatus
        old   == Get(results, "endpoint_stats", <<>>)
        was   == Get(old, key, NewStats)
        stats == [k \in DOMAIN old \cup {key} |->
                    IF k = key
                    THEN [total   |-> was.total + 1,
                          success |-> IF status = 200 THEN was.success + 1 ELSE was.success,
                          failed  |-> IF bad THEN was.failed + 1 ELSE was.failed]
                    ELSE old[k]]
    IN  [total          |-> results.total + 1,
         success        |-> IF status = 200 THEN results.success + 1 ELSE results.success,
         failed         |-> IF bad THEN results.failed + 1 ELSE results.failed,
         endpoint_stats |-> stats]

\* lines 89-107: the worker's update of the shared results
Record(results, endpoint_config, status) ==
    LET key   == EndpointKey(endpoint_config)
        old   == Get(results, "endpoint_stats", <<>>)
        stats == [k \in DOMAIN old \cup {key} |->
                    IF k = key THEN Count(Get(old, key, NewStats), status)
                    ELSE old[k]]
    IN  [total          |-> results.total + 1,
         success        |-> IF status = 200 THEN results.success + 1 ELSE results.success,
         failed         |-> IF status = 200 THEN results.failed ELSE results.failed + 1,
         endpoint_stats |-> stats]

\* lines 125: the f-string reads e['method'] and e['path'] of every endpoint
Malformed(endpoints) ==
    \E i \in 1..Len(endpoints) : ~({"method", "path"} \subseteq DOMAIN endpoints[i])

\* range(config['concurrent_requests'])
Range(n) == IF n > 0 THEN n ELSE 0

NewThread ==
    [pc |-> "copy_with", config |-> <<>>, results |-> <<>>, queue |-> <<>>,
     inflight |-> <<>>, workers |-> 0, exited |-> 0, produced |-> 0,
     stops |-> 0, outcomes |-> EmptyBag, stored |-> FALSE, raised |-> FALSE,
     flipped |-> <<>>]

RECURSIVE SumSeq(_, _)
SumSeq(s, n) == IF n = 0 THEN 0 ELSE SumSeq(s, n - 1) + s[n]

Busy(th) == SumSeq(th.inflight, Len(th.inflight))

----------------------------------------------------------------------------
(* State after import of the module, lines 33-36 *)

Init ==
    /\ current_config = DEFAULT_CONFIG
    /\ last_test_results = None
    /\ is_test_running = FALSE
    /\ test_lock = Free
    /\ handlers = [h \in Handlers |-> IdleHandler]
    /\ threads = <<>>
    /\ response = NoResponse
    /\ env \in Scenarios

----------------------------------------------------------------------------
(* The control plane *)

\* `response` holds the response the last step sent, NoResponse when it sent none
Silent == response' = NoResponse

\* a `with test_lock:` block entered and left within one step
WithLock == test_lock = Free /\ UNCHANGED test_lock

\* a handler finishes its request with the response r
Return(h, r) ==
    /\ handlers' = [handlers EXCEPT ![h] = IdleHandler]
    /\ response' = r @@ [changed |-> handlers[h].changed]

Goto(h, pc) == handlers' = [handlers EXCEPT ![h].pc = pc]

\* the clients send another start request only while the runs started and the
\* start requests under way are fewer than the scenario's number of runs
Pending == Cardinality({h \in Handlers : handlers[h].route \in {"start-test", "run-test"}})
CanStart == Len(threads) + Pending < env.starts

Error(route, code, message) ==
    [route |-> route, code |-> code, status |-> "error", message |-> message]
Started(route) ==
    [route |-> route, code |-> 200, status |-> "success", message |-> "Test started"]

\* lines 299-301: POST /start-test arrives and tests the flag
start_test_check(h) ==
    /\ handlers[h].pc = "idle"
    /\ "start-test" \in env.routes
    /\ CanStart
    /\ WithLock
    /\ IF is_test_running
       THEN /\ response' = Error("start-test", 400, "A test is already running")
                              @@ [changed |-> FALSE]
            /\ UNCHANGED handlers
       ELSE /\ handlers' = [handlers EXCEPT ![h] =
                    [IdleHandler EXCEPT !.pc = "execute_with", !.route = "start-test"]]
            /\ Silent
    /\ UNCHANGED <<current_config, last_test_results, is_test_running, threads, env>>

\* lines 348-350: POST /run-test arrives and tests the flag
run_test_check(h) ==
    /\ handlers[h].pc = "idle"
    /\ "run-test" \in env.routes
    /\ CanStart
    /\ WithLock
    /\ IF is_test_running
       THEN /\ response' = Error("run-test", 400, "A test is already running")
                              @@ [changed |-> FALSE]
            /\ UNCHANGED handlers
       ELSE /\ handlers' = [handlers EXCEPT ![h] =
                    [IdleHandler EXCEPT !.pc = "configure_with", !.route = "run-test"]]
            /\ Silent
    /\ UNCHANGED <<current_config, last_test_results, is_test_running, threads, env>>

\* run_test keeping the stored value of every field its body does not name
Configured_merge(config, data) ==
    [config EXCEPT
        !.api_url             = Get(data, "api_url", @),
        !.test_duration       = Get(data, "seconds", @),
        !.concurrent_requests = Get(data, "requests", @),
        !.request_timeout     = Get(data, "timeout", @),
        !.use_weights         = Get(data, "use_weights", @),
        !.endpoints           = Get(data, "endpoints", @)]

\* lines 359-370: the configuration run_test stores for the body `data`
Configured(config, data) ==
    [config EXCEPT
        !.api_url             = Get(data, "api_url", DefaultApiUrl),
        !.test_duration       = Get(data, "seconds", DefaultDuration),
        !.concurrent_requests = Get(data, "requests", DefaultWorkers),
        !.request_timeout     = Get(data, "timeout", DefaultTimeout),
        !.use_weights         = Get(data, "use_weights", TRUE),
        !.endpoints           = IF "endpoints" \in DOMAIN data THEN data.endpoints
                                ELSE IF Get(data, "reset_endpoints", FALSE)
                                     THEN DEFAULT_CONFIG.endpoints
                                     ELSE @]

\* lines 357-370
run_test_configure(h) ==
    /\ handlers[h].pc = "configure_with"
    /\ WithLock
    /\ current_config' = Configured(current_config, env.data)
    /\ handlers' = [handlers EXCEPT ![h].pc = "execute_with",
                                    ![h].changed = @ \/ current_config' # current_config]
    /\ Silent
    /\ UNCHANGED <<last_test_results, is_test_running, threads, env>>

\* execute_test_in_thread without the test of line 215
execute_test_in_thread_unchecked(h) ==
    /\ handlers[h].pc = "execute_with"
    /\ test_lock = Free
    /\ test_lock' = H(h)
    /\ Goto(h, "execute_set")
    /\ Silent
    /\ UNCHANGED <<current_config, last_test_results, is_test_running, threads, env>>

\* lines 214-217; a False return is answered at lines 314-317 or 382-385
execute_test_in_thread_check(h) ==
    /\ handlers[h].pc = "execute_with"
    /\ test_lock = Free
    /\ IF is_test_running
       THEN /\ UNCHANGED test_lock
            /\ Return(h, IF handlers[h].route = "start-test"
                         THEN Error("start-test", 400,
                                    "Failed to start test, another test may be running")
                         ELSE Error("run-test", 500, "Failed to start test"))
       ELSE /\ test_lock' = H(h)
            /\ Goto(h, "execute_set")
            /\ Silent
    /\ UNCHANGED <<current_config, last_test_results, is_test_running, threads, env>>

\* line 218, leaving the `with`
execute_test_in_thread_set(h) ==
    /\ handlers[h].pc = "execute_set"
    /\ test_lock = H(h)
    /\ test_lock' = Free
    /\ is_test_running' = TRUE
    /\ handlers' = [handlers EXCEPT ![h].pc = "thread_start",
                                    ![h].flipped = current_config]
    /\ Silent
    /\ UNCHANGED <<current_config, last_test_results, threads, env>>

\* lines 246-249, answered at lines 308-312 or 376-380
execute_test_in_thread_start(h) ==
    /\ handlers[h].pc = "thread_start"
    /\ threads' = Append(threads, [NewThread EXCEPT !.flipped = handlers[h].flipped])
    /\ Return(h, Started(handlers[h].route))
    /\ UNCHANGED <<current_config, last_test_results, is_test_running, test_lock, env>>

\* line 248 raises (the process cannot start another thread), answered at
\* lines 318-320 or 386-388
execute_test_in_thread_start_fails(h) ==
    /\ handlers[h].pc = "thread_start"
    /\ Return(h, Error(handlers[h].route, 500, "can't start new thread"))
    /\ UNCHANGED <<current_config, last_test_results, is_test_running, test_lock, threads, env>>

\* `not new_config`, line 276: an empty body is falsy
Falsy(new_config) == DOMAIN new_config = {}

\* lines 275-277: POST /config with a falsy body
config_invalid(h) ==
    /\ handlers[h].pc = "idle"
    /\ "config" \in env.routes
    /\ Falsy(env.new_config)
    /\ response' = Error("config", 400, "Invalid JSON data") @@ [changed |-> FALSE]
    /\ UNCHANGED <<current_config, last_test_results, is_test_running, test_lock,
                   handlers, threads, env>>

\* config without the test of line 280
config_unchecked(h) ==
    /\ handlers[h].pc = "idle"
    /\ "config" \in env.routes
    /\ ~Falsy(env.new_config)
    /\ test_lock = Free
    /\ test_lock' = H(h)
    /\ handlers' = [handlers EXCEPT ![h] =
            [IdleHandler EXCEPT !.pc = "config_merge", !.route = "config"]]
    /\ Silent
    /\ UNCHANGED <<current_config, last_test_results, is_test_running, threads, env>>

\* lines 279-281: POST /config arrives with a body and tests the flag
config_check(h) ==
    /\ handlers[h].pc = "idle"
    /\ "config" \in env.routes
    /\ ~Falsy(env.new_config)
    /\ test_lock = Free
    /\ IF is_test_running
       THEN /\ response' = Error("config", 400, "Cannot update config while test is running")
                              @@ [changed |-> FALSE]
            /\ UNCHANGED <<test_lock, handlers>>
       ELSE /\ test_lock' = H(h)
            /\ handlers' = [handlers EXCEPT ![h] =
                    [IdleHandler EXCEPT !.pc = "config_merge", !.route = "config"]]
            /\ Silent
    /\ UNCHANGED <<current_config, last_test_results, is_test_running, threads, env>>

\* the merge as current_config.update(new_config), without the test of line 285
Merged_update(config, new_config) ==
    [key \in DOMAIN config \cup DOMAIN new_config |->
        IF key \in DOMAIN new_config THEN new_config[key] ELSE config[key]]

\* lines 284-286: the loop over new_config.items()
Merged(config, new_config) ==
    [key \in DOMAIN config |->
        IF key \in DOMAIN new_config THEN new_config[key] ELSE config[key]]

\* lines 284-288, leaving the `with`; the response is built from current_config
\* right after the lock is released
config_merge(h) ==
    /\ handlers[h].pc = "config_merge"
    /\ test_lock = H(h)
    /\ test_lock' = Free
    /\ current_config' = Merged(current_config, env.new_config)
    /\ handlers' = [handlers EXCEPT ![h] = IdleHandler]
    /\ response' = [route |-> "config", code |-> 200, status |-> "success",
                    config |-> current_config',
                    changed |-> current_config' # current_config]
    /\ UNCHANGED <<last_test_results, is_test_running, threads, env>>

\* `elif last_test_results`, line 331: a result dict always has keys, so it is
\* falsy only when it is None
Truthy(results) == results # None

\* lines 326-341
StatusBody ==
    IF is_test_running
    THEN [route |-> "status", code |-> 200, status |-> "running",
          config |-> current_config]
    ELSE IF Truthy(last_test_results)
    THEN [route |-> "status", code |-> 200, status |-> "completed",
          results |-> last_test_results, config |-> current_config]
    ELSE [route |-> "status", code |-> 200, status |-> "idle",
          config |-> current_config]

\* lines 325-341: GET /status
test_status(h) ==
    /\ handlers[h].pc = "idle"
    /\ "status" \in env.routes
    /\ WithLock
    /\ response' = StatusBody
    /\ UNCHANGED <<current_config, last_test_results, is_test_running, handlers, threads, env>>

----------------------------------------------------------------------------
(* The run thread: run() of execute_test_in_thread, lines 220-243 *)

At(t, pc) == threads[t].pc = pc

Step(t, th) == threads' = [threads EXCEPT ![t] = th]

\* run() taking test_lock for the copy and keeping it across run_load_test
run_copy_keeps_lock(t) ==
    /\ At(t, "copy_with")
    /\ test_lock = Free
    /\ test_lock' = <<"run", t>>
    /\ Step(t, [threads[t] EXCEPT !.pc = "load", !.config = current_config])
    /\ Silent
    /\ UNCHANGED <<current_config, last_test_results, is_test_running, handlers, env>>

\* lines 229-230
run_copy(t) ==
    /\ At(t, "copy_with")
    /\ WithLock
    /\ Step(t, [threads[t] EXCEPT !.pc = "load", !.config = current_config])
    /\ Silent
    /\ UNCHANGED <<current_config, last_test_results, is_test_running, handlers, env>>

\* run_load_test going on from the counters of the last result instead of
\* creating its own at line 116
run_load_test_begin_accumulates(t) ==
    LET th == threads[t] IN
    /\ At(t, "load")
    /\ IF Malformed(th.config.endpoints)
       THEN Step(t, [th EXCEPT !.pc = "finally_with", !.raised = TRUE])
       ELSE Step(t, [th EXCEPT !.pc = "produce",
                               !.results = IF last_test_results = None THEN NewStats
                                           ELSE last_test_results,
                               !.queue = <<>>,
                               !.inflight = [i \in 1..Len(th.config.endpoints) |-> 0],
                               !.workers = Range(th.config.concurrent_requests)])
    /\ Silent
    /\ UNCHANGED <<current_config, last_test_results, is_test_running, test_lock,
                   handlers, env>>

\* lines 116-148 of run_load_test: the f-string of line 125 raises KeyError on an
\* endpoint without method or path, which run() catches at line 238; otherwise
\* the counters, the queue and the worker tasks are created
run_load_test_begin(t) ==
    LET th == threads[t] IN
    /\ At(t, "load")
    /\ IF Malformed(th.config.endpoints)
       THEN Step(t, [th EXCEPT !.pc = "finally_with", !.raised = TRUE])
       ELSE Step(t, [th EXCEPT !.pc = "produce",
                               !.results = NewStats,
                               !.queue = <<>>,
                               !.inflight = [i \in 1..Len(th.config.endpoints) |-> 0],
                               !.workers = Range(th.config.concurrent_requests)])
    /\ Silent
    /\ UNCHANGED <<current_config, last_test_results, is_test_running, test_lock,
                   handlers, env>>

\* lines 152-172: one turn of the producer loop inside the window; random.choice
\* of an empty list raises IndexError, which line 174 catches, ending the loop
producer_put(t) ==
    LET th == threads[t] IN
    /\ At(t, "produce")
    /\ th.config.test_duration > 0
    /\ th.produced < MaxItems
    /\ IF Selections(th.config) = {}
       THEN Step(t, [th EXCEPT !.pc = "sentinels"])
       ELSE \E i \in Selections(th.config) :
                Step(t, [th EXCEPT !.queue = Append(@, i), !.produced = @ + 1])
    /\ Silent
    /\ UNCHANGED <<current_config, last_test_results, is_test_running, test_lock,
                   handlers, env>>

\* line 152 false: the window is over
producer_expire(t) ==
    LET th == threads[t] IN
    /\ At(t, "produce")
    /\ th.config.test_duration <= 0 \/ th.produced >= 1
    /\ Step(t, [th EXCEPT !.pc = "sentinels"])
    /\ Silent
    /\ UNCHANGED <<current_config, last_test_results, is_test_running, test_lock,
                   handlers, env>>

\* one stop token fewer than workers
Sentinels_one_short(n) == [i \in 1..(n - 1) |-> Sentinel]

\* lines 178-179: puts on an unbounded queue never suspend
Sentinels(n) == [i \in 1..n |-> Sentinel]

send_sentinels(t) ==
    LET th == threads[t]
        n  == Range(th.config.concurrent_requests) IN
    /\ At(t, "sentinels")
    /\ Step(t, [th EXCEPT !.pc = "gather",
                          !.queue = @ \o Sentinels(n),
                          !.stops = @ + Len(Sentinels(n))])
    /\ Silent
    /\ UNCHANGED <<current_config, last_test_results, is_test_running, test_lock,
                   handlers, env>>

Running(t) == threads[t].pc \in {"produce", "sentinels", "gather"}

\* workers blocked in `await request_queue.get()`
Waiting(th) == th.workers - th.exited - Busy(th)

\* lines 80-86: a waiting worker takes the head of the queue; on the sentinel it
\* leaves its loop, otherwise it sends the request and suspends on the reply
worker_get(t) ==
    LET th   == threads[t]
        item == Head(th.queue) IN
    /\ Running(t)
    /\ th.queue # <<>>
    /\ Waiting(th) > 0
    /\ IF item = Sentinel
       THEN Step(t, [th EXCEPT !.queue = Tail(@), !.exited = @ + 1])
       ELSE Step(t, [th EXCEPT !.queue = Tail(@), !.inflight[item] = @ + 1])
    /\ Silent
    /\ UNCHANGED <<current_config, last_test_results, is_test_running, test_lock,
                   handlers, env>>

\* lines 86-109: make_request returns and the worker records the outcome; no
\* await lies between the return and the last counter update
worker_record(t) ==
    LET th == threads[t] IN
    /\ Running(t)
    /\ \E i \in 1..Len(th.inflight), reply \in Replies(env.target) :
        LET endpoint_config == th.config.endpoints[i]
            status == make_request(endpoint_config, reply) IN
        /\ th.inflight[i] > 0
        /\ Step(t, [th EXCEPT
                      !.inflight[i] = @ - 1,
                      !.results = Record(@, endpoint_config, status),
                      !.outcomes = @ (+) SetToBag({<<EndpointKey(endpoint_config),
                                                     status>>})])
    /\ Silent
    /\ UNCHANGED <<current_config, last_test_results, is_test_running, test_lock,
                   handlers, env>>

\* the target "any" also stands for an error nobody expects (a MemoryError, say)
\* raised inside the worker's iteration
Faults(target) == target = "any"

\* a worker without the try/except of lines 78 and 110: the error ends its task
worker_except_exits(t) ==
    LET th == threads[t] IN
    /\ Running(t)
    /\ Faults(env.target)
    /\ \E i \in 1..Len(th.inflight) :
        /\ th.inflight[i] > 0
        /\ Step(t, [th EXCEPT !.inflight[i] = @ - 1, !.exited = @ + 1])
    /\ Silent
    /\ UNCHANGED <<current_config, last_test_results, is_test_running, test_lock,
                   handlers, env>>

\* lines 86 and 110-112: the call of make_request raises; the worker logs the
\* error, marks the item done and goes back to line 80 without counting it
worker_except(t) ==
    LET th == threads[t] IN
    /\ Running(t)
    /\ Faults(env.target)
    /\ \E i \in 1..Len(th.inflight) :
        /\ th.inflight[i] > 0
        /\ Step(t, [th EXCEPT !.inflight[i] = @ - 1])
    /\ Silent
    /\ UNCHANGED <<current_config, last_test_results, is_test_running, test_lock,
                   handlers, env>>

\* run_load_test returning without `await asyncio.gather(*workers)`
gather_not_awaited(t) ==
    LET th == threads[t] IN
    /\ At(t, "gather")
    /\ Step(t, [th EXCEPT !.pc = "store_with"])
    /\ Silent
    /\ UNCHANGED <<current_config, last_test_results, is_test_running, test_lock,
                   handlers, env>>

\* lines 182-207 and 233: gather returns once every worker task has finished
gather_return(t) ==
    LET th == threads[t] IN
    /\ At(t, "gather")
    /\ th.exited = th.workers
    /\ Step(t, [th EXCEPT !.pc = "store_with"])
    /\ Silent
    /\ UNCHANGED <<current_config, last_test_results, is_test_running, test_lock,
                   handlers, env>>

\* lines 236-237
run_store(t) ==
    /\ At(t, "store_with")
    /\ WithLock
    /\ last_test_results' = threads[t].results
    /\ Step(t, [threads[t] EXCEPT !.pc = "finally_with", !.stored = TRUE])
    /\ Silent
    /\ UNCHANGED <<current_config, is_test_running, handlers, env>>

\* lines 241-243: the flag is reset and the thread ends, its locals with it
run_finally(t) ==
    /\ At(t, "finally_with")
    /\ WithLock
    /\ is_test_running' = FALSE
    /\ Step(t, [NewThread EXCEPT !.pc = "done",
                                 !.stored = threads[t].stored,
                                 !.raised = threads[t].raised])
    /\ Silent
    /\ UNCHANGED <<current_config, last_test_results, handlers, env>>

----------------------------------------------------------------------------

\* the clients of the scenario, each sending one request at a time
Clients == 1..env.clients

Next ==
    \/ \E h \in Clients : start_test_check(h)
    \/ \E h \in Clients : run_test_check(h)
    \/ \E h \in Clients : run_test_configure(h)
    \/ \E h \in Clients : execute_test_in_thread_check(h)
    \/ \E h \in Clients : execute_test_in_thread_set(h)
    \/ \E h \in Clients : execute_test_in_thread_start(h)
    \/ \E h \in Clients : execute_test_in_thread_start_fails(h)
    \/ \E h \in Clients : config_invalid(h)
    \/ \E h \in Clients : config_check(h)
    \/ \E h \in Clients : config_merge(h)
    \/ \E h \in Clients : test_status(h)
    \/ \E t \in 1..Len(threads) : run_copy(t)
    \/ \E t \in 1..Len(threads) : run_load_test_begin(t)
    \/ \E t \in 1..Len(threads) : producer_put(t)
    \/ \E t \in 1..Len(threads) : producer_expire(t)
    \/ \E t \in 1..Len(threads) : send_sentinels(t)
    \/ \E t \in 1..Len(threads) : worker_get(t)
    \/ \E t \in 1..Len(threads) : worker_record(t)
    \/ \E t \in 1..Len(threads) : worker_except(t)
    \/ \E t \in 1..Len(threads) : gather_return(t)
    \/ \E t \in 1..Len(threads) : run_store(t)
    \/ \E t \in 1..Len(threads) : run_finally(t)

Spec == Init /\ [][Next]_vars

----------------------------------------------------------------------------
(* The endpoint selection of the producer on its own: a run that has just
   entered its producer loop, for every small list of weighted endpoints and
   both values of use_weights *)

Paths == <<"/", "/status", "/submit">>

SelectorEndpoints ==
    {DEFAULT_CONFIG.endpoints} \cup
    { [i \in 1..n |-> [path |-> Paths[i], method |-> "GET", weight |-> weights[i]]] :
        n \in 1..Len(Paths), weights \in [1..Len(Paths) -> 0..MaxWeight] }

SelectorConfigs ==
    { [DEFAULT_CONFIG EXCEPT !.endpoints = endpoints, !.use_weights = use_weights] :
        endpoints \in SelectorEndpoints, use_weights \in BOOLEAN }

SelectorInit ==
    /\ current_config \in SelectorConfigs
    /\ last_test_results = None
    /\ is_test_running = TRUE
    /\ test_lock = Free
    /\ handlers = [h \in Handlers |-> IdleHandler]
    /\ threads = << [NewThread EXCEPT
                        !.pc = "produce",
                        !.config = current_config,
                        !.flipped = current_config,
                        !.results = NewStats,
                        !.inflight = [i \in 1..Len(current_config.endpoints) |-> 0],
                        !.workers = Range(current_config.concurrent_requests)] >>
    /\ response = NoResponse
    /\ env = [clients |-> 1, routes |-> {"start-test"}, starts |-> 1, target |-> "ok",
              new_config |-> <<>>, data |-> <<>>]

SelectorNext == \E t \in 1..Len(threads) : producer_put(t)

SelectorSpec == SelectorInit /\ [][SelectorNext]_vars

\* a request that has been accepted is served to its end: the handler's thread
\* keeps being scheduled
HandlerStep(h) ==
    \/ run_test_configure(h)
    \/ execute_test_in_thread_check(h)
    \/ execute_test_in_thread_set(h)
    \/ execute_test_in_thread_start(h)
    \/ execute_test_in_thread_start_fails(h)
    \/ config_merge(h)

\* the run thread and the tasks of its event loop keep being scheduled, and
\* every request returns or times out
ThreadStep(t) ==
    /\ t <= Len(threads)
    /\ \/ run_copy(t)
       \/ run_load_test_begin(t)
       \/ producer_put(t)
       \/ producer_expire(t)
       \/ send_sentinels(t)
       \/ worker_get(t)
       \/ worker_record(t)
       \/ worker_except(t)
       \/ gather_return(t)
       \/ run_store(t)
       \/ run_finally(t)

\* the service under fair scheduling of its threads; the clients stay free to
\* send requests or not
FairSpec ==
    /\ Spec
    /\ \A h \in Handlers : WF_vars(HandlerStep(h))
    /\ \A t \in 1..MaxRuns : WF_vars(ThreadStep(t))

----------------------------------------------------------------------------
(* Vocabulary of the properties *)

Threads == 1..Len(threads)

\* a run thread between its launch (line 248) and its reset of the flag (line 242)
Active(t) == threads[t].pc # "done"

\* run_load_test has returned its results to run() (line 233)
Returned(t) ==
    \/ threads[t].pc = "store_with"
    \/ threads[t].pc = "finally_with" /\ threads[t].stored

\* a start request answered with a refusal because a run is under way
StartRejected ==
    /\ response.route \in {"start-test", "run-test"}
    /\ response.status = "error"
    /\ response.message \in {"A test is already running",
                             "Failed to start test, another test may be running",
                             "Failed to start test"}

\* the sum of the `total` counters of a result's endpoint_stats
RECURSIVE SumTotals(_, _)
SumTotals(stats, keys) ==
    IF keys = {} THEN 0
    ELSE LET k == CHOOSE k \in keys : TRUE
         IN  stats[k].total + SumTotals(stats, keys \ {k})

\* endpoint_stats is created by the first request recorded (lines 98-99)
EndpointStats(results) == Get(results, "endpoint_stats", <<>>)

EndpointTotals(results) ==
    SumTotals(EndpointStats(results), DOMAIN EndpointStats(results))

\* the number of logged outcomes <<key, status>> among `which`
RECURSIVE Copies(_, _)
Copies(outcomes, which) ==
    IF which = {} THEN 0
    ELSE LET o == CHOOSE o \in which : TRUE
         IN  CopiesIn(o, outcomes) + Copies(outcomes, which \ {o})

Logged(outcomes, keys, ok) ==
    Copies(outcomes, {o \in BagToSet(outcomes) : o[1] \in keys /\ (o[2] = 200) = ok})

Keys(outcomes) == {o[1] : o \in BagToSet(outcomes)}

\* the counters of a result agree with the log of the outcomes the workers saw
Classified(results, outcomes) ==
    /\ results.success = Logged(outcomes, Keys(outcomes), TRUE)
    /\ results.failed = Logged(outcomes, Keys(outcomes), FALSE)
    /\ DOMAIN EndpointStats(results) = Keys(outcomes)
    /\ \A key \in Keys(outcomes) :
        /\ results.endpoint_stats[key].success = Logged(outcomes, {key}, TRUE)
        /\ results.endpoint_stats[key].failed = Logged(outcomes, {key}, FALSE)

----------------------------------------------------------------------------
(* Properties *)

\* C1: at most one run is active: never are two run threads both between their
\* launch and their final reset of is_test_running.
C1_AtMostOneRunActive ==
    Cardinality({t \in Threads : Active(t)}) <= 1

\* a start request that raced with another one lost at line 215 while the
\* winner's run thread was active
C1_Witness ==
    /\ StartRejected
    /\ response.message # "A test is already running"
    /\ \E t \in Threads : Active(t)

\* C2: a start request rejected because a run is already active leaves the stored
\* configuration and the last result exactly as they were before the request.
C2_RejectedStartChangesNothing ==
    StartRejected => ~response.changed

\* C3: a configuration update while a run is under way is rejected with an error
\* and changes no key; the test of the flag and the merge are atomic under the
\* lock, so no update lands after the flag has been set: a handler between its
\* test and its merge holds the lock and sees the flag still unset, an accepted
\* update is answered with the flag unset, and a refusal has changed nothing.
C3_ConfigRejectedWhileRunning ==
    /\ \A h \in Handlers :
        handlers[h].pc = "config_merge" => test_lock = H(h) /\ ~is_test_running
    /\ response.route = "config" /\ response.code = 200 => ~is_test_running
    /\ (response.route = "config" /\ response.code = 400
            /\ response.message = "Cannot update config while test is running")
        => is_test_running /\ ~response.changed

\* an update is refused while a run thread is executing
C3_Witness ==
    /\ response.route = "config"
    /\ response.code = 400
    /\ response.message = "Cannot update config while test is running"
    /\ \E t \in Threads : Running(t)

\* C4: a configuration update outside a run applies exactly the recognized keys:
\* afterwards every key of the patch that is a key of the stored configuration
\* holds the patch's value, every other key is unchanged, and the key set of the
\* stored configuration is the same as before.
C4_ConfigAppliesRecognizedKeys ==
    [][ (\E h \in Handlers : handlers[h].pc = "config_merge" /\ handlers'[h].pc = "idle")
        => /\ DOMAIN current_config' = DOMAIN current_config
           /\ \A key \in DOMAIN current_config :
                IF key \in DOMAIN env.new_config
                THEN current_config'[key] = env.new_config[key]
                ELSE current_config'[key] = current_config[key] ]_vars

\* an update carrying a recognized and an unrecognized key has been applied
C4_Witness ==
    /\ response.route = "config"
    /\ response.code = 200
    /\ response.changed
    /\ DOMAIN env.new_config \cap DOMAIN DEFAULT_CONFIG # {}
    /\ DOMAIN env.new_config \ DOMAIN DEFAULT_CONFIG # {}
    /\ response.config = current_config

\* C5: for every run that completes, total = success + failed, and the sum of
\* endpoint_stats[k].total over all keys k equals total; this holds of the result
\* run_load_test returns and of the result stored as the last result.
C5_CountersAddUp ==
    /\ \A t \in Threads : Returned(t) =>
        /\ threads[t].results.total = threads[t].results.success + threads[t].results.failed
        /\ EndpointTotals(threads[t].results) = threads[t].results.total
    /\ last_test_results # None =>
        /\ last_test_results.total = last_test_results.success + last_test_results.failed
        /\ EndpointTotals(last_test_results) = last_test_results.total

\* a stored result with successes and failures on two endpoint keys
C5_Witness ==
    /\ last_test_results # None
    /\ last_test_results.success > 0
    /\ last_test_results.failed > 0
    /\ Cardinality(DOMAIN EndpointStats(last_test_results)) > 1

\* C6: a run enqueues exactly `concurrent_requests` stop tokens, all of them after
\* the producer loop has ended, and every worker has exited before the run's
\* result is stored and the flag is reset.
C6_StopTokensAndJoin ==
    \A t \in Threads :
        LET th == threads[t] IN
        /\ th.pc \in {"produce", "sentinels"} =>
            th.stops = 0 /\ \A i \in 1..Len(th.queue) : th.queue[i] # Sentinel
        /\ th.pc = "gather" \/ Returned(t) =>
            th.stops = Range(th.config.concurrent_requests)
        /\ Returned(t) =>
            /\ th.workers = Range(th.config.concurrent_requests)
            /\ th.exited = th.workers
            /\ Busy(th) = 0
        /\ th.exited < th.workers => is_test_running

\* the default pool has taken all its stop tokens after serving a request
C6_Witness ==
    \E t \in Threads :
        /\ threads[t].pc = "store_with"
        /\ threads[t].workers = DefaultWorkers
        /\ threads[t].stops = DefaultWorkers
        /\ threads[t].exited = DefaultWorkers
        /\ threads[t].results.total > 0

\* C7: a request counts as a success iff its status is 200; any other status
\* (other 2xx included) and any request without a status (network error, timeout,
\* unsupported method) counts as failed, in the global counters and in the
\* counters of its endpoint key.
C7_SuccessIffStatus200 ==
    /\ \A t \in Threads :
        threads[t].pc \in {"produce", "sentinels", "gather"} \/ Returned(t)
            => Classified(threads[t].results, threads[t].outcomes)
    /\ \A t \in Threads :
        Returned(t) /\ threads[t].stored => last_test_results = threads[t].results

\* a 201 and a request without status were both recorded as failed
C7_Witness ==
    \E t \in Threads :
        /\ Returned(t)
        /\ \E k1 \in Keys(threads[t].outcomes) : <<k1, 201>> \in BagToSet(threads[t].outcomes)
        /\ \E k2 \in Keys(threads[t].outcomes) : <<k2, NoStatus>> \in BagToSet(threads[t].outcomes)
        /\ threads[t].results.failed = 2
        /\ threads[t].results.success = 0

\* the configuration's endpoint list is not empty and uses only the methods
\* make_request sends
Supported(config) ==
    /\ config.endpoints # <<>>
    /\ \A i \in 1..Len(config.endpoints) : config.endpoints[i].method \in {"GET", "POST"}

AllOk(results) ==
    results.total > 0 /\ results.failed = 0 /\ results.success = results.total

\* C8: with a positive duration, at least one worker and a target that always
\* answers 200, a run completes with total > 0, failed = 0 and success = total.
C8_AllOkRunSucceeds ==
    \A t \in Threads :
        ( /\ Returned(t)
          /\ env.target = "ok"
          /\ threads[t].config.test_duration > 0
          /\ threads[t].config.concurrent_requests >= 1 )
        => AllOk(threads[t].results)

\* What does hold of the runs C8 is about: when, besides, the endpoint list is
\* not empty and its methods are all GET or POST, the run returns total > 0,
\* failed = 0 and success = total.
C8_AllOkSupportedRunSucceeds ==
    \A t \in Threads :
        ( /\ Returned(t)
          /\ env.target = "ok"
          /\ threads[t].config.test_duration > 0
          /\ threads[t].config.concurrent_requests >= 1
          /\ Supported(threads[t].config) )
        => AllOk(threads[t].results)

\* a run of the default endpoints has stored a result of two successes, one of
\* them a POST
AllOkSupportedRunStored ==
    /\ env.target = "ok"
    /\ last_test_results # None
    /\ last_test_results.success = 2
    /\ "POST:/submit" \in DOMAIN EndpointStats(last_test_results)
    /\ \E t \in Threads : threads[t].pc = "finally_with" /\ threads[t].stored

\* C9: when every request fails without a status, the run is not aborted: no
\* exception ends a run that has recorded a request, the join is never stuck,
\* and the run returns and stores success = 0 and failed = total.
C9_FailuresDoNotAbort ==
    env.target = "down" =>
        /\ \A t \in Threads :
            LET th == threads[t] IN
            /\ th.raised => th.outcomes = EmptyBag /\ th.produced = 0
            /\ (th.pc = "gather" /\ Busy(th) = 0 /\ (th.queue = <<>> \/ Waiting(th) = 0))
                => th.exited = th.workers
            /\ Returned(t) => th.results.success = 0 /\ th.results.failed = th.results.total
        /\ last_test_results # None =>
            last_test_results.success = 0 /\ last_test_results.failed = last_test_results.total

\* against an unreachable target a run has stored a result of failures only
C9_Witness ==
    /\ env.target = "down"
    /\ last_test_results # None
    /\ last_test_results.total = 2
    /\ last_test_results.failed = 2
    /\ \E t \in Threads : threads[t].pc = "done" /\ threads[t].stored /\ ~threads[t].raised

\* some run has stored its result
SomeRunCompleted == \E t \in Threads : threads[t].stored

\* a run is active from the moment Start has set the flag and is launching the
\* run thread until that thread has reset the flag
RunActive ==
    \/ \E t \in Threads : Active(t)
    \/ \E h \in Handlers : handlers[h].pc = "thread_start"

\* C10: the status query reports "running", with the configuration and without
\* a result, exactly when a run is active; when none is active it reports
\* "completed" together with the last result if some run has completed, and
\* "idle" if none ever has.
C10_StatusReport ==
    response.route = "status" =>
        /\ response.status =
            IF RunActive THEN "running"
            ELSE IF SomeRunCompleted THEN "completed"
            ELSE "idle"
        /\ response.config = current_config
        /\ response.status = "completed" <=> "results" \in DOMAIN response
        /\ response.status = "completed" => response.results = last_test_results

\* the run thread has made its copy of the configuration (line 230)
Copied(t) == threads[t].pc \notin {"copy_with", "done"}

\* C11: the configuration a run executes with is the stored configuration as it
\* was when Start set is_test_running: no control call interleaved after that
\* changes the configuration the run uses.
C11_RunUsesConfigAtFlip ==
    \A t \in Threads : Copied(t) => threads[t].config = threads[t].flipped

\* C12: a Start whose configuration has zero endpoints is rejected at Start
\* time: the flag is not set for it, no worker is spawned and no result is
\* produced.
C12_ZeroEndpointsRejected ==
    /\ \A h \in Handlers :
        handlers[h].pc = "thread_start" => handlers[h].flipped.endpoints # <<>>
    /\ \A t \in Threads :
        Copied(t) /\ threads[t].config.endpoints = <<>> =>
            /\ threads[t].workers = 0
            /\ ~threads[t].stored

\* the field of the body of POST /run-test that sets a configuration field
BodyKey(key) ==
    CASE key = "test_duration"       -> "seconds"
      [] key = "concurrent_requests" -> "requests"
      [] key = "request_timeout"     -> "timeout"
      [] OTHER                       -> key

\* run_test writes the stored configuration (lines 357-370)
RunTestConfigures ==
    \E h \in Handlers :
        handlers[h].pc = "configure_with" /\ handlers'[h].pc = "execute_with"

\* C13: POST /run-test merges the overrides of its body into the stored
\* configuration: each configuration field named in the body takes the body's
\* value, each field not named keeps the value it had.
C13_RunTestMergesOverrides ==
    [][ RunTestConfigures =>
            \A key \in DOMAIN current_config :
                current_config'[key] =
                    IF BodyKey(key) \in DOMAIN env.data THEN env.data[BodyKey(key)]
                    ELSE current_config[key] ]_vars

\* the value run_test gives a configuration field its body does not name
RunTestDefault(key, config, data) ==
    CASE key = "api_url"             -> DefaultApiUrl
      [] key = "test_duration"       -> DefaultDuration
      [] key = "concurrent_requests" -> DefaultWorkers
      [] key = "request_timeout"     -> DefaultTimeout
      [] key = "use_weights"         -> TRUE
      [] OTHER -> IF "reset_endpoints" \in DOMAIN data /\ data.reset_endpoints
                  THEN DEFAULT_CONFIG.endpoints
                  ELSE config.endpoints

\* C13, amended: each configuration field named in the body of POST /run-test
\* takes the body's value; api_url, test_duration, concurrent_requests,
\* request_timeout and use_weights, when not named, are reset to the fixed
\* defaults of run_test; endpoints, when not named, is reset to the default list
\* if the body's reset_endpoints is true and keeps its value otherwise.
C13_RunTestAppliesBodyOrDefaults ==
    [][ RunTestConfigures =>
            /\ DOMAIN current_config' = DOMAIN current_config
            /\ \A key \in DOMAIN current_config :
                current_config'[key] =
                    IF BodyKey(key) \in DOMAIN env.data THEN env.data[BodyKey(key)]
                    ELSE RunTestDefault(key, current_config, env.data) ]_vars

\* run_test has written a configuration in which the body's requests is set, the
\* endpoint list of the earlier POST /config is kept and the timeout that
\* request had set is back at the default
C13_Witness ==
    \E h \in Handlers :
        /\ handlers[h].route = "run-test"
        /\ handlers[h].pc = "execute_with"
        /\ handlers[h].changed
        /\ "timeout" \notin DOMAIN env.data
        /\ "requests" \in DOMAIN env.data
        /\ "request_timeout" \in DOMAIN env.new_config
        /\ env.new_config.request_timeout # DefaultTimeout
        /\ current_config.endpoints = env.new_config.endpoints
        /\ current_config.request_timeout = DefaultTimeout
        /\ current_config.concurrent_requests = env.data.requests

\* C14: every run that enters Running eventually leaves Running: whenever
\* is_test_running is set it is eventually reset, under fair scheduling and with
\* every request returning, whether the requests succeed or fail and whether or
\* not run_load_test raises; there is no stuck state.
C14_RunningIsLeft ==
    is_test_running ~> ~is_test_running

\* What does hold of C14: every run thread that was launched ends, resetting the
\* flag, whatever its requests return and whether or not run_load_test raises.
C14_LaunchedRunEnds ==
    \A t \in 1..MaxRuns :
        (t <= Len(threads) /\ threads[t].pc # "done")
            ~> (t <= Len(threads) /\ threads[t].pc = "done")

\* the run is in its producer loop and selects by weight (line 154)
Weighted(t) ==
    /\ threads[t].pc = "produce"
    /\ threads[t].config.use_weights
    /\ TotalWeight(threads[t].config) > 0

\* the number of draw cells ((rnum - 1) / RScale, rnum / RScale] of
\* (0, total_weight] on which the walk selects endpoint i; the walk compares the
\* draw with whole numbers only, so it is constant on the inside of a cell and
\* equal there to its value at the cell's right end
Share(config, i) ==
    Cardinality({rnum \in 1..(TotalWeight(config) * RScale) : WeightedSelect(config, rnum) = i})

\* C15: weighted selection is proportional to the configured integer weights:
\* over the range of the draws r, the share of draws that select endpoint i is
\* weight_i / total_weight, and what the producer enqueues is such a selection.
C15_SelectionProportional ==
    \A t \in Threads : Weighted(t) =>
        LET config == threads[t].config IN
        /\ \A i \in 1..Len(config.endpoints) :
            Share(config, i) * TotalWeight(config)
                = Weight(config.endpoints[i]) * (TotalWeight(config) * RScale)
        /\ \A k \in 1..Len(threads[t].queue) :
            \E rnum \in 0..(TotalWeight(config) * RScale) :
                threads[t].queue[k] = WeightedSelect(config, rnum)

\* with the default weights 10, 5, 8 the producer has enqueued the third and then
\* the second endpoint
C15_Witness ==
    \E t \in Threads :
        /\ Weighted(t)
        /\ threads[t].config.endpoints = DEFAULT_CONFIG.endpoints
        /\ Share(threads[t].config, 1) = 10 * RScale
        /\ threads[t].queue = <<3, 2>>

\* C16: with use_weights true and total_weight > 0, for a draw r in
\* [0, total_weight) the selector returns the first endpoint, in configuration
\* order, whose cumulative weight exceeds r; an endpoint of weight 0 is never
\* returned.
C16_FirstCumulativeAbove ==
    \A t \in Threads : Weighted(t) =>
        LET endpoints == threads[t].config.endpoints IN
        /\ \A rnum \in 0..(TotalWeight(threads[t].config) * RScale - 1) :
            LET i == WeightedSelect(threads[t].config, rnum) IN
            /\ SumWeights(endpoints, i) * RScale > rnum
            /\ \A j \in 1..(i - 1) : SumWeights(endpoints, j) * RScale <= rnum
            /\ Weight(endpoints[i]) > 0
        /\ \A k \in 1..Len(threads[t].queue) :
            Weight(endpoints[threads[t].queue[k]]) > 0

\* the run is in its producer loop with use_weights true and all weights zero
ZeroWeighted(t) ==
    /\ threads[t].pc = "produce"
    /\ threads[t].config.use_weights
    /\ threads[t].config.endpoints # <<>>
    /\ TotalWeight(threads[t].config) = 0

\* C17: with use_weights true and total_weight equal to 0, every selection of
\* the run returns the first endpoint of the configuration.
C17_ZeroTotalSelectsFirst ==
    \A t \in Threads : ZeroWeighted(t) =>
        /\ Selections(threads[t].config) = {1}
        /\ \A k \in 1..Len(threads[t].queue) : threads[t].queue[k] = 1

\* C17, amended: with use_weights true and total_weight equal to 0, every
\* selection of the run is a choice among all of config.endpoints: each
\* enqueued work item is a member of config.endpoints and every member can be
\* selected.
C17_ZeroTotalSelectsAny ==
    \A t \in Threads : ZeroWeighted(t) =>
        /\ Selections(threads[t].config) = 1..Len(threads[t].config.endpoints)
        /\ \A k \in 1..Len(threads[t].queue) :
            threads[t].queue[k] \in 1..Len(threads[t].config.endpoints)

\* with all weights zero the producer has enqueued the last and then the first
\* of three endpoints
C17_Witness ==
    \E t \in Threads :
        /\ ZeroWeighted(t)
        /\ Len(threads[t].config.endpoints) = 3
        /\ threads[t].queue = <<3, 1>>

\* the run is in its producer loop with use_weights false
Unweighted(t) ==
    /\ threads[t].pc = "produce"
    /\ ~threads[t].config.use_weights

\* C18: with use_weights false, selection is a choice among config.endpoints
\* that ignores weights: every enqueued work item is a member of
\* config.endpoints, and every member can be selected whatever its weight.
C18_UniformIgnoresWeights ==
    \A t \in Threads : Unweighted(t) =>
        /\ Selections(threads[t].config) = 1..Len(threads[t].config.endpoints)
        /\ \A k \in 1..Len(threads[t].queue) :
            threads[t].queue[k] \in 1..Len(threads[t].config.endpoints)

\* with use_weights false the producer has enqueued an endpoint of weight 0 that
\* follows one of positive weight
C18_Witness ==
    \E t \in Threads :
        /\ Unweighted(t)
        /\ Len(threads[t].config.endpoints) = 2
        /\ Weight(threads[t].config.endpoints[1]) > 0
        /\ Weight(threads[t].config.endpoints[2]) = 0
        /\ threads[t].queue = <<2>>

\* the stop tokens in a queue
SentinelsIn(queue) == Cardinality({k \in 1..Len(queue) : queue[k] = Sentinel})

\* the run's workers exist: from their creation to the return of run_load_test
Engine(t) == Running(t) \/ Returned(t)

\* C19: in every run each worker dequeues exactly one stop token, no worker
\* dequeues a stop token while a work item enqueued before it is still in the
\* queue, and no worker is left blocked on an empty queue: when the last worker
\* exits the queue is empty.
C19_OneStopTokenPerWorker ==
    \A t \in Threads : Engine(t) =>
        LET th == threads[t] IN
        /\ th.exited <= th.workers
        /\ \A j, k \in 1..Len(th.queue) :
            j < k /\ th.queue[j] = Sentinel => th.queue[k] = Sentinel
        /\ (th.pc = "gather" /\ th.queue = <<>> /\ Busy(th) = 0) => th.exited = th.workers
        /\ (th.pc = "gather" \/ Returned(t)) /\ th.workers > 0 /\ th.exited = th.workers
            => th.queue = <<>> /\ SentinelsIn(th.queue) = 0 /\ th.stops = th.workers

\* the last worker is about to take the last stop token, every work item
\* enqueued before it having been served
C19_Witness ==
    \E t \in Threads :
        /\ threads[t].pc = "gather"
        /\ threads[t].queue = <<Sentinel>>
        /\ threads[t].workers = DefaultWorkers
        /\ threads[t].exited = threads[t].workers - 1
        /\ Busy(threads[t]) = 0
        /\ threads[t].produced = MaxItems

\* the work items of a run whose processing raised: those produced that are
\* neither queued, nor being processed, nor counted
ItemsIn(queue) == Len(queue) - SentinelsIn(queue)
Errors(th) == th.produced - ItemsIn(th.queue) - Busy(th) - th.results.total

\* C20: a worker's loop ends only when it dequeues the stop sentinel: the
\* workers that have left their loop are as many as the stop tokens dequeued,
\* whatever errors were raised while work items were processed, and a worker
\* whose item raised is back waiting on the queue.
C20_OnlySentinelEndsWorker ==
    \A t \in Threads : Engine(t) =>
        LET th == threads[t] IN
        /\ th.exited = th.stops - SentinelsIn(th.queue)
        /\ Errors(th) >= 0
        /\ Waiting(th) = th.workers - th.exited - Busy(th)
        /\ Waiting(th) >= 0

\* both workers have left on their stop tokens after the processing of one of the
\* two work items raised and the other was recorded
C20_Witness ==
    \E t \in Threads :
        /\ threads[t].pc = "store_with"
        /\ threads[t].workers = DefaultWorkers
        /\ threads[t].exited = threads[t].workers
        /\ Errors(threads[t]) = 1
        /\ threads[t].results.total = 1

\* the work items of a run whose processing ended in the except branch of the
\* worker: those produced that are neither queued, nor being processed, nor
\* among the outcomes make_request returned
Raised(th) == th.produced - ItemsIn(th.queue) - Busy(th) - BagCardinality(th.outcomes)

\* C21: a work item whose processing raises an unexpected error inside the
\* worker iteration is counted as a failed outcome: the run's total is the
\* number of outcomes returned plus the number of items that raised, and its
\* failed counter is the number of outcomes other than 200 plus the number of
\* items that raised.
C21_RaisedItemCountedFailed ==
    \A t \in Threads : Engine(t) =>
        LET th == threads[t] IN
        /\ th.results.total = BagCardinality(th.outcomes) + Raised(th)
        /\ th.results.failed = Logged(th.outcomes, Keys(th.outcomes), FALSE) + Raised(th)

\* whatever the except branch does with the counters, it never touches
\* `success`, and an item that raised is never among the returned outcomes
C21_RaisedItemNotSuccess ==
    \A t \in Threads : Engine(t) =>
        LET th == threads[t] IN
        /\ Raised(th) >= 0
        /\ th.results.success = Logged(th.outcomes, Keys(th.outcomes), TRUE)
        /\ th.results.total = BagCardinality(th.outcomes)

\* the run thread has left run_load_test, by return or by raise, and is about to
\* reset the flag (line 241)
Leaving(t) == threads[t].pc = "finally_with"

\* the run thread has reset the flag: the run has left Running
Ended(t) == threads[t].pc = "done"

\* C22: every run that leaves Running has produced exactly one result, stored
\* under the lock before is_test_running is reset, and that result replaces the
\* previous one: when the run is about to reset the flag the last result is the
\* result of that run, and once it has ended with no other run active the
\* status query shows "completed" with the last result.
C22_EndedRunStoredItsResult ==
    /\ \A t \in Threads :
        /\ Leaving(t) =>
            /\ threads[t].stored
            /\ is_test_running
            /\ last_test_results = threads[t].results
        /\ Ended(t) => threads[t].stored /\ last_test_results # None
    /\ response.route = "status" /\ ~RunActive /\ (\E t \in Threads : Ended(t)) =>
        /\ response.status = "completed"
        /\ response.results = last_test_results

\* a run whose run_load_test returned stores its result once, under the lock and
\* before the flag is reset
C22_ReturnedRunStoredItsResult ==
    \A t \in Threads :
        /\ Leaving(t) /\ ~threads[t].raised =>
            /\ threads[t].stored
            /\ is_test_running
            /\ test_lock = Free
            /\ last_test_results = threads[t].results
        /\ Ended(t) /\ ~threads[t].raised => threads[t].stored /\ last_test_results # None
        /\ threads[t].stored => ~threads[t].raised

\* the positions at which a handler is inside a `with test_lock:` block between
\* two steps: after the flag test of line 215 and after that of line 280
Bookkeeping == {"execute_set", "config_merge"}

\* C23: test_lock is held only for short bookkeeping steps and never while the
\* producer or the workers of a run execute: between steps the lock is held, if
\* at all, by a handler inside its check-and-set block and by no run thread;
\* during a run the lock is free, so that an idle client's GET /status can take
\* it at once, and the answer it gets is "running".
C23_LockFreeDuringRun ==
    /\ test_lock # Free =>
        \E h \in Handlers : test_lock = H(h) /\ handlers[h].pc \in Bookkeeping
    /\ \A t \in Threads : Running(t) =>
        /\ test_lock = Free
        /\ is_test_running
        /\ \A h \in Clients :
            handlers[h].pc = "idle" /\ "status" \in env.routes => ENABLED test_status(h)
    /\ response.route = "status" /\ (\E t \in Threads : Running(t)) =>
        response.status = "running"

\* GET /status is answered "running" while a worker of the run waits for the
\* reply to its request
C23_Witness ==
    /\ response.route = "status"
    /\ response.status = "running"
    /\ \E t \in Threads : threads[t].pc = "gather" /\ Busy(threads[t]) > 0

\* C24: no work item is lost or counted twice: when a run completes without a
\* fault inside a worker iteration, its total equals the number of work items
\* the producer enqueued, for every number of workers and every interleaving of
\* the workers' steps.
C24_TotalIsItemsEnqueued ==
    \A t \in Threads : Returned(t) /\ Raised(threads[t]) = 0 =>
        /\ threads[t].results.total = threads[t].produced
        /\ ItemsIn(threads[t].queue) = 0

\* with at least one worker every item enqueued is counted exactly once
C24_PoolCountsEveryItem ==
    \A t \in Threads :
        /\ Engine(t) => threads[t].results.total <= threads[t].produced
        /\ Returned(t) /\ threads[t].workers > 0 =>
            /\ ItemsIn(threads[t].queue) = 0
            /\ threads[t].results.total + Raised(threads[t]) = threads[t].produced
            /\ Raised(threads[t]) = 0 =>
                BagCardinality(threads[t].outcomes) = threads[t].produced

\* C25: counters are run-scoped: each run starts from total = success = failed
\* = 0 with a fresh queue, and what a run has counted, has in flight and has
\* queued never exceeds the work items enqueued during that run, so its result
\* never accumulates counts from, or shares queue items with, an earlier run.
C25_CountersRunScoped ==
    \A t \in Threads : Engine(t) =>
        LET th == threads[t] IN
        /\ th.produced = 0 =>
            /\ th.results = NewStats
            /\ ItemsIn(th.queue) = 0
            /\ Busy(th) = 0
        /\ th.results.total + Busy(th) + ItemsIn(th.queue) <= th.produced
        /\ th.results.total = th.results.success + th.results.failed
        /\ th.stored => last_test_results = th.results

\* a second run returns a result with fewer requests than the result of the
\* first run, which is still the stored one
C25_Witness ==
    /\ Len(threads) = 2
    /\ Ended(1)
    /\ threads[1].stored
    /\ last_test_results # None
    /\ last_test_results.total = MaxItems
    /\ threads[2].pc = "store_with"
    /\ threads[2].results.total = 1
    /\ threads[2].produced = 1

\* C26: once a run has completed the state never returns to Idle: from then on
\* a status query is answered "running" while a run is active and "completed"
\* otherwise.
C26_NeverIdleAgain ==
    response.route = "status" /\ (\E t \in Threads : Ended(t) \/ threads[t].stored) =>
        response.status = IF RunActive THEN "running" ELSE "completed"

\* once a result has been stored it is never removed: no status query is
\* answered "idle" any more, and "completed" is the answer whenever the flag is
\* not set
C26_StoredResultNeverIdle ==
    SomeRunCompleted =>
        /\ last_test_results # None
        /\ response.route = "status" =>
            /\ response.status # "idle"
            /\ response.status = IF is_test_running THEN "running" ELSE "completed"

\* C27: if Start cannot launch the run (the background thread fails to start
\* after the running flag was set), the controller does not remain Running: the
\* flag is set only while a run is active, and a start request is refused as
\* already running only while a run is active.
C27_FailedLaunchNotRunning ==
    /\ is_test_running => RunActive
    /\ StartRejected => RunActive

\* the failure of the launch is reported to the caller of Start with a 500
LaunchFailed == "message" \in DOMAIN response /\ response.message = "can't start new thread"

C27_FailedLaunchReported ==
    LaunchFailed =>
        /\ response.route \in {"start-test", "run-test"}
        /\ response.code = 500
        /\ response.status = "error"
        /\ is_test_running

====
